---- MODULE Spec2Model ----
(***************************************************************************)
(* Model of the vSphere cloud provider's disk attach/detach orchestration  *)
(* (vclib VirtualMachine), the disk-manager dispatcher (diskmanagers) and  *)
(* the VM UUID codec (getvmUUID).                                           *)
(*                                                                         *)
(* The vCenter server is the environment: every remote call a handler      *)
(* makes either fails or succeeds, as chosen by the "plan" input of the    *)
(* handler's action (the set of ordinal numbers of the remote calls of     *)
(* this request that fail).  A handler is one action; the remote calls it  *)
(* made are recorded in "calls" and what it returned in "ret".             *)
(***************************************************************************)
EXTENDS Integers, Sequences, FiniteSets, TLC

VARIABLES
    devices,     \* the VM's live device list on the server (sequence)
    calls,       \* log of the calls made by the last request
    ret,         \* what the last request returned, with its inputs, the
                 \* device list it started from and the remote errors raised
    lastAttach,  \* file -> path and UUID of the AttachDisk that added its disk
    raw,         \* getvmUUID: content of the UUID file (sequence of chars)
    chunks,      \* getvmUUID: number of pieces raw was written in
    uuidRet,     \* getvmUUID: result of the last call
    volOpts,     \* VirtualDisk.VolumeOptions
    diskRet      \* VirtualDisk.Create / Delete: result of the last call

vars == <<devices, calls, ret, lastAttach, raw, chunks, uuidRet, volOpts, diskRet>>
vmVars == <<devices, calls, ret, lastAttach>>
uuidVars == <<raw, chunks, uuidRet>>
diskVars == <<volOpts, diskRet>>

----------------------------------------------------------------------------
(* Bounds *)

MaxInitControllers == 5   \* controllers on the VM at the start (limit + 1)
MaxFailIndex == 9         \* highest ordinal of a remote call that may fail
MaxInterference == 2      \* requests of other clients during one request

----------------------------------------------------------------------------
(* Errors.  An error value is a record; a remote error carries the name    *)
(* of the remote call and its ordinal number in the request, so that "the  *)
(* error the remote call produced" is an identifiable value.               *)

LocalErr(k) == [kind |-> k, call |-> "", n |-> 0]
Nil == LocalErr("nil")
ErrNoDiskUUIDFound == LocalErr("ErrNoDiskUUIDFound")
ErrNoDevicesFound == LocalErr("ErrNoDevicesFound")
ErrNoDiskIDFound == LocalErr("ErrNoDiskIDFound")
ErrNotValidControllerType == LocalErr("Not a valid SCSI Controller Type")
ErrControllerLimit == LocalErr("SCSI Controller Limit has been reached")
ErrNilControllerDevice == LocalErr("Nil value is set for controllerDevice")
ErrDeviceNotFound == LocalErr("device not found")

----------------------------------------------------------------------------
(* Strings of the VM model.  A disk UUID is [id, form]: the server reports *)
(* the same identifier in two raw notations, "spaced" (QueryVirtualDiskUuid)*)
(* and "dashed" (the device backing); "canon" is the formatted one.         *)

EmptyUUID == [id |-> "", form |-> ""]
EmptyName == <<>>

ControllerTypes == {"pvscsi", "lsilogic-sas"}
RequestTypes == ControllerTypes \cup {"ide"}
PolicyIDs == {"", "gold"}

(* A datastore path is [base, ext]; the datastore holds base.vmdk files.   *)
EmptyPath == [base |-> "", ext |-> ""]
Paths == {[base |-> "vol1", ext |-> ""], [base |-> "vol1", ext |-> ".vmdk"],
          [base |-> "vol2", ext |-> ".vmdk"]}
Files == {"vol1", "vol2"}
FileUUID(f) == IF f = "vol1" THEN "u1" ELSE "u2"

----------------------------------------------------------------------------
(* Devices.  One record shape for controllers and disks:                   *)
(*   kind "ctrl": ctype, key, hot (HotAddRemove), sharing (SharedBus)       *)
(*   kind "disk": key, ckey (ControllerKey), unit, uuid (backing UUID),     *)
(*                flat (backing is VirtualDiskFlatVer2BackingInfo)          *)

Dev(kind, ctype, key, ckey, unit, uuid, flat, hot, sharing) ==
    [kind |-> kind, ctype |-> ctype, key |-> key, ckey |-> ckey,
     unit |-> unit, uuid |-> uuid, flat |-> flat, hot |-> hot,
     sharing |-> sharing]
NullDev == Dev("nil", "", 0, 0, 0, EmptyUUID, FALSE, FALSE, "")
Controller(ctype, key, hot, sharing) ==
    Dev("ctrl", ctype, key, 0, 0, EmptyUUID, FALSE, hot, sharing)
Disk(key, ckey, unit, uuid, flat) ==
    Dev("disk", "", key, ckey, unit, uuid, flat, FALSE, "")

Last(s) == s[Len(s)]
Min(S) == CHOOSE x \in S : \A y \in S : x <= y

(* object.VirtualDeviceList.SelectByType: the devices of the same Go type  *)
(* as the argument (all disks are VirtualDisk; a controller's Go type is   *)
(* its controller type).                                                    *)
SelectByType(vmDevices, device) ==
    LET same(d) == d.kind = device.kind /\ d.ctype = device.ctype
    IN SelectSeq(vmDevices, same)

(* object.VirtualDeviceList.Name: "<type>-<controllerKey>-<unitNumber>"    *)
(* for a disk, "<type>-<key>" for a controller.                             *)
Name(device) ==
    IF device.kind = "disk" THEN <<"disk", device.ckey, device.unit>>
    ELSE <<device.ctype, device.key>>

(* object.VirtualDeviceList.Find: the first device with that name, or nil. *)
Find(vmDevices, name) ==
    LET hits == {i \in 1..Len(vmDevices) : Name(vmDevices[i]) = name}
    IN IF hits = {} THEN NullDev ELSE vmDevices[Min(hits)]

(* getSCSIControllers: the SCSI controllers of a device list.              *)
getSCSIControllers(vmDevices) ==
    LET isCtrl(d) == d.kind = "ctrl" IN SelectSeq(vmDevices, isCtrl)

SCSIControllerLimit == 4
SCSIDeviceSlots == 16
SCSIReservedSlot == 7

CheckControllerSupported(ctrlType) == ctrlType \in ControllerTypes

(* formatVirtualDiskUUID: any raw notation of an identifier to the         *)
(* canonical one.                                                           *)
formatVirtualDiskUUID(uuid) ==
    IF uuid = EmptyUUID THEN EmptyUUID ELSE [id |-> uuid.id, form |-> "canon"]

----------------------------------------------------------------------------
(* The request's world: the server's device list, the log of calls made   *)
(* so far, the number of remote calls made so far and the errors the       *)
(* remote calls produced so far.  A result is [w, val, err].               *)

World(devs) == [devs |-> devs, calls |-> <<>>, n |-> 0, raised |-> <<>>]
R(w, val, err) == [w |-> w, val |-> val, err |-> err]
Log(w, name) == [w EXCEPT !.calls = Append(@, name)]
Remote(w, name) == [w EXCEPT !.calls = Append(@, name), !.n = @ + 1]
Failed(w, plan) == (w.n + 1) \in plan
RemoteErr(w, name) == [kind |-> "remote", call |-> name, n |-> w.n + 1]
RemoteFail(w, name) ==
    [w EXCEPT !.calls = Append(@, name), !.n = @ + 1,
              !.raised = Append(@, RemoteErr(w, name))]

(* vm.Device(ctx): fetch the live device list.                             *)
VmDevice(w, plan) ==
    IF Failed(w, plan)
    THEN R(RemoteFail(w, "Device"), <<>>, RemoteErr(w, "Device"))
    ELSE R(Remote(w, "Device"), w.devs, Nil)

(* The file a path names on the datastore ("" when there is none).         *)
ServerFile(path) == IF path.base \in Files THEN path.base ELSE ""

(* VirtualDiskManager.QueryVirtualDiskUuid(ctx, diskPath, nil)             *)
QueryVirtualDiskUuid(w, plan, diskPath) ==
    IF Failed(w, plan) \/ ServerFile(diskPath) = "" \/ diskPath.ext # ".vmdk"
    THEN R(RemoteFail(w, "QueryVirtualDiskUuid"), EmptyUUID,
           RemoteErr(w, "QueryVirtualDiskUuid"))
    ELSE R(Remote(w, "QueryVirtualDiskUuid"),
           [id |-> FileUUID(ServerFile(diskPath)), form |-> "spaced"], Nil)

(* The server's key for a new controller: 1000 + the lowest free bus.      *)
NewControllerKey(devs) ==
    LET used == {devs[i].key : i \in 1..Len(devs)}
    IN Min({k \in 1000..(1000 + Len(devs)) : k \notin used})

(* Where the server puts a new device in the list.                         *)
InsertDev(devs, d, pos) ==
    IF pos = "first" THEN <<d>> \o devs ELSE Append(devs, d)

(* vm.AddDevice(ctx, device): reconfigure the VM with an add operation and *)
(* wait for the task.                                                       *)
AddDevice(w, plan, device, pos) ==
    IF Failed(w, plan)
    THEN R(RemoteFail(w, "AddDevice"), NullDev, RemoteErr(w, "AddDevice"))
    ELSE LET added == [device EXCEPT !.key = NewControllerKey(w.devs)]
         IN R([Remote(w, "AddDevice") EXCEPT !.devs = InsertDev(@, added, pos)],
              added, Nil)

(* vm.RemoveDevice(ctx, keepFiles, device): reconfigure the VM with a      *)
(* remove operation and wait for the task.  The server refuses to remove a *)
(* device it does not have; with a controller it removes the disks on it   *)
(* (a refusal is a failure of the call).                                   *)
RemoveDevice(w, plan, device) ==
    LET present == \E i \in 1..Len(w.devs) : w.devs[i].key = device.key
        other(d) == /\ d.key # device.key
                    /\ ~(device.kind = "ctrl" /\ d.kind = "disk"
                                              /\ d.ckey = device.key)
    IN IF Failed(w, plan) \/ ~present
       THEN R(RemoteFail(w, "RemoveDevice"), NullDev, RemoteErr(w, "RemoveDevice"))
       ELSE R([Remote(w, "RemoveDevice") EXCEPT !.devs = SelectSeq(@, other)],
              device, Nil)

----------------------------------------------------------------------------
(* vclib.VirtualMachine *)

(* filepath.Ext(diskPath) != ".vmdk" => diskPath += ".vmdk"; the paths of  *)
(* the model have the extension "" or ".vmdk".                              *)
WithVmdkExt(diskPath) ==
    IF diskPath # EmptyPath /\ diskPath.ext # ".vmdk"
    THEN [diskPath EXCEPT !.ext = ".vmdk"]
    ELSE diskPath

(* Mutant: the query's own error is passed on.                             *)
QueryFailureError_PassedOn(err) == err

(* The error GetVirtualDiskUUIDByPath reports when the query fails.        *)
QueryFailureError(err) == ErrNoDiskUUIDFound

GetVirtualDiskUUIDByPath(w, plan, diskPath) ==
    LET q == QueryVirtualDiskUuid(w, plan, WithVmdkExt(diskPath))
    IN IF q.err # Nil
       THEN R(q.w, EmptyUUID, QueryFailureError(q.err))
       ELSE R(q.w, formatVirtualDiskUUID(q.val), Nil)

getVirtualDiskUUIDByDevice(newDevice) ==
    IF newDevice.flat
    THEN [val |-> formatVirtualDiskUUID(newDevice.uuid), err |-> Nil]
    ELSE [val |-> EmptyUUID, err |-> ErrNoDiskUUIDFound]

(* Mutant: the loop takes the first disk whatever its UUID.                *)
DiskMatches_AnyDisk(diskUUID, volumeUUID) == TRUE

(* The comparison of getVirtualDeviceByPath's loop.                        *)
DiskMatches(diskUUID, volumeUUID) == diskUUID = volumeUUID

getVirtualDeviceByPath(w, plan, vmDevices, diskPath) ==
    LET Lookup(u) ==
            LET hits == {i \in 1..Len(vmDevices) :
                    /\ vmDevices[i].kind = "disk"
                    /\ DiskMatches(getVirtualDiskUUIDByDevice(vmDevices[i]).val,
                                   u.val)}
            IN IF u.err # Nil THEN R(u.w, NullDev, u.err)
               ELSE IF hits # {} THEN R(u.w, vmDevices[Min(hits)], Nil)
               ELSE R(u.w, NullDev, Nil)
    IN Lookup(GetVirtualDiskUUIDByPath(w, plan, diskPath))

GetVirtualDiskControllerKey(w, plan, diskPath) ==
    LET d == VmDevice(w, plan)
        Key(v) == IF v.err # Nil THEN R(v.w, -1, v.err)
                  ELSE IF v.val # NullDev THEN R(v.w, v.val.ckey, Nil)
                  ELSE R(v.w, -1, ErrNoDevicesFound)
    IN IF d.err # Nil THEN R(d.w, -1, d.err)
       ELSE Key(getVirtualDeviceByPath(d.w, plan, d.val, diskPath))

IsDiskAttached(w, plan, diskPath) ==
    LET Attached(k) ==
            IF k.err # Nil
            THEN IF k.err = ErrNoDevicesFound THEN R(k.w, FALSE, Nil)
                 ELSE R(k.w, FALSE, k.err)
            ELSE R(k.w, TRUE, Nil)
    IN Attached(GetVirtualDiskControllerKey(w, plan, diskPath))

GetVirtualDiskID(w, plan, diskPath) ==
    LET d == VmDevice(w, plan)
        ID(v) == IF v.err # Nil THEN R(v.w, EmptyName, v.err)
                 ELSE IF v.val # NullDev THEN R(v.w, Name(v.val), Nil)
                 ELSE R(v.w, EmptyName, ErrNoDiskIDFound)
    IN IF d.err # Nil THEN R(d.w, EmptyName, d.err)
       ELSE ID(getVirtualDeviceByPath(d.w, plan, d.val, diskPath))

(* A controller has spare capacity when a unit number other than the       *)
(* reserved one is free on it.                                              *)
UnitsUsed(vmDevices, controller) ==
    {vmDevices[i].unit : i \in {j \in 1..Len(vmDevices) :
        vmDevices[j].kind = "disk" /\ vmDevices[j].ckey = controller.key}}
FreeUnits(vmDevices, controller) ==
    (0..(SCSIDeviceSlots - 1)) \ (UnitsUsed(vmDevices, controller)
                                   \cup {SCSIReservedSlot})

(* What the requests of other clients of the VM, run to completion, make   *)
(* of the server's device list: a detach removes the disk of a file, an    *)
(* attach adds the disk of a file on the lowest free unit of the first     *)
(* controller that has one.                                                 *)
OtherRequests ==
    {[op |-> o, file |-> f] : o \in {"attach", "detach"}, f \in Files}
OtherDetached(devs, f) ==
    LET other(d) == ~(d.kind = "disk" /\ d.flat /\ d.uuid.id = FileUUID(f))
    IN SelectSeq(devs, other)
OtherAttached(devs, f) ==
    LET spare(d) == d.kind = "ctrl" /\ FreeUnits(devs, d) # {}
        ctrls == SelectSeq(devs, spare)
        unit == Min(FreeUnits(devs, ctrls[1]))
        attached == \E i \in 1..Len(devs) :
                       /\ devs[i].kind = "disk" /\ devs[i].flat
                       /\ devs[i].uuid.id = FileUUID(f)
    IN IF attached \/ Len(ctrls) = 0 THEN devs
       ELSE Append(devs,
                   Disk(2000 + 16 * (ctrls[1].key - 1000) + unit,
                        ctrls[1].key, unit,
                        [id |-> FileUUID(f), form |-> "dashed"], TRUE))
OtherDone(devs, o) ==
    IF o.op = "detach" THEN OtherDetached(devs, o.file)
    ELSE OtherAttached(devs, o.file)
Interfere(devs, others) ==
    LET After[k \in 0..Len(others)] ==
            IF k = 0 THEN devs ELSE OtherDone(After[k - 1], others[k])
    IN After[Len(others)]
Interferences ==
    UNION {[1..n -> OtherRequests] : n \in 0..MaxInterference}

(* DetachDisk while the requests `others` of other clients run between its *)
(* own read of the device list and the read made by GetVirtualDiskID; the  *)
(* result's val is the device handed to RemoveDevice.                      *)
DetachDiskAmong(w0, plan, vmDiskPath, others) ==
    LET w == Log(w0, "DetachDisk")
        d == VmDevice(w, plan)
        w1 == [d.w EXCEPT !.devs = Interfere(@, others)]
        Detach(id) ==
            LET device == Find(d.val, id.val)
                rm == RemoveDevice(id.w, plan, device)
            IN IF id.err # Nil THEN R(id.w, NullDev, id.err)
               ELSE IF device = NullDev
                    THEN R(id.w, NullDev, ErrDeviceNotFound)
               ELSE IF rm.err # Nil THEN R(rm.w, device, rm.err)
               ELSE R(rm.w, device, Nil)
    IN IF d.err # Nil THEN R(d.w, NullDev, d.err)
       ELSE Detach(GetVirtualDiskID(w1, plan, vmDiskPath))

(* DetachDisk with the requests against the VM serialized.                 *)
DetachDisk(w0, plan, vmDiskPath) ==
    DetachDiskAmong(w0, plan, vmDiskPath, <<>>)

(* DeleteController: removes the last device of the controller's type.     *)
DeleteController(w0, plan, controllerDevice) ==
    LET w == Log(w0, "DeleteController")
        d == VmDevice(w, plan)
        controllerDeviceList == SelectByType(d.val, controllerDevice)
        device == Last(controllerDeviceList)
        rm == RemoveDevice(d.w, plan, device)
    IN IF controllerDevice = NullDev THEN R(w, NullDev, ErrNilControllerDevice)
       ELSE IF d.err # Nil THEN R(d.w, NullDev, d.err)
       ELSE IF Len(controllerDeviceList) < 1
            THEN R(d.w, NullDev, ErrNoDevicesFound)
       ELSE IF rm.err # Nil THEN R(rm.w, device, rm.err)
       ELSE R(rm.w, device, Nil)

(* Mutant: the limit test is off by one.                                   *)
ControllerLimitReached_OffByOne(allSCSIControllers) ==
    Len(allSCSIControllers) > SCSIControllerLimit

(* Mutant: there is no limit test.                                         *)
ControllerLimitReached_Never(allSCSIControllers) == FALSE

(* The limit test of createAndAttachSCSIController.                        *)
ControllerLimitReached(allSCSIControllers) ==
    Len(allSCSIControllers) >= SCSIControllerLimit

(* object.VirtualDeviceList.CreateSCSIController: a new, unregistered      *)
(* controller object of the given type (key not yet assigned).             *)
CreateSCSIController(diskControllerType) ==
    IF diskControllerType \in ControllerTypes
    THEN [val |-> Controller(diskControllerType, -1, FALSE, ""), err |-> Nil]
    ELSE [val |-> NullDev, err |-> LocalErr("unknown SCSI controller type")]

(* Mutant: the new controller keeps the settings it was created with.      *)
ConfigureNewController_Unset(controller) == controller

(* The settings createAndAttachSCSIController gives the new controller.    *)
ConfigureNewController(controller) ==
    [controller EXCEPT !.hot = TRUE, !.sharing = "noSharing"]

createAndAttachSCSIController(w0, plan, diskControllerType, pos) ==
    LET w == Log(w0, "createAndAttachSCSIController")
        d == VmDevice(w, plan)
        allSCSIControllers == getSCSIControllers(d.val)
        c == CreateSCSIController(diskControllerType)
        wc == Log(d.w, "CreateSCSIController")
        newSCSIController == ConfigureNewController(c.val)
        a == AddDevice(wc, plan, newSCSIController, pos)
        cleanup == DeleteController(a.w, plan, newSCSIController)
    IN IF d.err # Nil THEN R(d.w, NullDev, d.err)
       ELSE IF ControllerLimitReached(allSCSIControllers)
            THEN R(d.w, NullDev, ErrControllerLimit)
       ELSE IF c.err # Nil THEN R(wc, NullDev, c.err)
       ELSE IF a.err # Nil THEN R(cleanup.w, NullDev, a.err)
       ELSE R(a.w, newSCSIController, Nil)

getAvailableSCSIController(vmDevices, diskControllerType) ==
    LET ok(d) == /\ d.kind = "ctrl" /\ d.ctype = diskControllerType
                 /\ FreeUnits(vmDevices, d) # {}
        avail == SelectSeq(vmDevices, ok)
    IN IF Len(avail) = 0 THEN NullDev ELSE avail[1]

NoSpec == [disk |-> NullDev, fileName |-> EmptyPath, newSCSIController |-> NullDev]

(* createDiskSpec: picks a controller of the requested type with spare     *)
(* capacity, or has one created, and builds the disk device on it.  The    *)
(* result's val is [disk, fileName, newSCSIController].                     *)
createDiskSpec(w0, plan, diskPath, diskControllerType, pos) ==
    LET w == Log(w0, "createDiskSpec")
        d == VmDevice(w, plan)
        existing == getAvailableSCSIController(d.val, diskControllerType)
        Build(ww, devs, ctrl, new) ==
            R(ww, [disk |-> Disk(-1, ctrl.key, Min(FreeUnits(devs, ctrl)),
                                 EmptyUUID, TRUE),
                   fileName |-> diskPath, newSCSIController |-> new], Nil)
        OnNew(c) ==
            LET d2 == VmDevice(c.w, plan)
                created == getAvailableSCSIController(d2.val, diskControllerType)
                undoRead == DeleteController(d2.w, plan, c.val)
            IN IF c.err # Nil THEN R(c.w, NoSpec, c.err)
               ELSE IF d2.err # Nil THEN R(undoRead.w, NoSpec, d2.err)
               ELSE IF created = NullDev
                    THEN R(undoRead.w, NoSpec,
                           LocalErr("Cannot find SCSI controller"))
               ELSE Build(d2.w, d2.val, created, c.val)
    IN IF d.err # Nil THEN R(d.w, NoSpec, d.err)
       ELSE IF existing # NullDev THEN Build(d.w, d.val, existing, NullDev)
       ELSE OnNew(createAndAttachSCSIController(d.w, plan, diskControllerType,
                                                pos))

(* vm.Reconfigure(ctx, spec): submit the device change; val is the task.   *)
Reconfigure(w, plan, deviceChange) ==
    IF Failed(w, plan)
    THEN R(RemoteFail(w, "Reconfigure"), deviceChange, RemoteErr(w, "Reconfigure"))
    ELSE R(Remote(w, "Reconfigure"), deviceChange, Nil)

(* task.Wait(ctx): the server performs the change; a disk is added with    *)
(* the backing UUID of the file it names.  The task fails when the file    *)
(* or the controller does not exist or the unit is taken.                   *)
Wait(w, plan, task, pos) ==
    LET file == ServerFile(task.fileName)
        ctrls == {i \in 1..Len(w.devs) : w.devs[i].kind = "ctrl"
                                          /\ w.devs[i].key = task.disk.ckey}
        taken == \E i \in 1..Len(w.devs) :
                    /\ w.devs[i].kind = "disk"
                    /\ w.devs[i].ckey = task.disk.ckey
                    /\ w.devs[i].unit = task.disk.unit
        added == [task.disk EXCEPT
                    !.key = 2000 + 16 * (task.disk.ckey - 1000) + task.disk.unit,
                    !.uuid = [id |-> FileUUID(file), form |-> "dashed"]]
    IN IF Failed(w, plan) \/ file = "" \/ ctrls = {} \/ taken
       THEN R(RemoteFail(w, "Wait"), NullDev, RemoteErr(w, "Wait"))
       ELSE R([Remote(w, "Wait") EXCEPT !.devs = InsertDev(@, added, pos)],
              added, Nil)

NoInfo == [name |-> EmptyName, uuid |-> EmptyUUID]

GetVMDiskInfo(w0, plan, disk) ==
    LET w == Log(w0, "GetVMDiskInfo")
        d == VmDevice(w, plan)
        devs == SelectByType(d.val, disk)
        newDevice == Last(devs)
        deviceName == Name(newDevice)
        u == getVirtualDiskUUIDByDevice(newDevice)
    IN IF d.err # Nil THEN R(d.w, NoInfo, d.err)
       ELSE IF Len(devs) < 1 THEN R(d.w, NoInfo, ErrNoDevicesFound)
       ELSE IF u.err # Nil THEN R(d.w, NoInfo, u.err)
       ELSE R(d.w, [name |-> deviceName, uuid |-> u.val], Nil)

(* Mutant: AttachDisk does not validate the controller type.               *)
AttachTypeCheck_Skipped(diskControllerType) == TRUE

(* The controller-type validation AttachDisk starts with.                  *)
AttachTypeCheck(diskControllerType) ==
    CheckControllerSupported(diskControllerType)

(* Mutant: the failure paths return without the cleanup.                   *)
MustDeleteController_Never(newSCSIController) == FALSE

(* Whether a failure path of AttachDisk calls DeleteController.             *)
MustDeleteController(newSCSIController) == newSCSIController # NullDev

(* The UUID returned by AttachDisk's already-attached short-circuit.       *)
AttachedResult(u) == R(u.w, [name |-> EmptyName, uuid |-> u.val], Nil)

(* AttachDisk; the result's val is [name, uuid].                            *)
AttachDisk(w0, plan, vmDiskPath, storagePolicyID, diskControllerType, posC, posD) ==
    LET w == Log(w0, "AttachDisk")
        Add(cs) ==
            LET disk == cs.val.disk
                newSCSIController == cs.val.newSCSIController
                deviceConfigSpec ==
                    [disk |-> disk, fileName |-> cs.val.fileName,
                     operation |-> "add",
                     profile |-> IF storagePolicyID # ""
                                 THEN <<storagePolicyID>> ELSE <<>>]
                Cleanup(ww) ==
                    IF MustDeleteController(newSCSIController)
                    THEN DeleteController(ww, plan, newSCSIController).w
                    ELSE ww
                task == Reconfigure(cs.w, plan, deviceConfigSpec)
                wt == Wait(task.w, plan, task.val, posD)
                info == GetVMDiskInfo(wt.w, plan, disk)
            IN IF cs.err # Nil THEN R(cs.w, NoInfo, cs.err)
               ELSE IF task.err # Nil THEN R(Cleanup(task.w), NoInfo, task.err)
               ELSE IF wt.err # Nil THEN R(Cleanup(wt.w), NoInfo, wt.err)
               ELSE IF info.err # Nil
                    THEN R(DetachDisk(Cleanup(info.w), plan, vmDiskPath).w,
                           NoInfo, info.err)
               ELSE R(info.w, info.val, Nil)
        Checked(at) ==
            IF at.err # Nil THEN R(at.w, NoInfo, at.err)
            ELSE IF at.val
                 THEN AttachedResult(
                          GetVirtualDiskUUIDByPath(at.w, plan, vmDiskPath))
            ELSE Add(createDiskSpec(at.w, plan, vmDiskPath, diskControllerType,
                                    posC))
    IN IF ~AttachTypeCheck(diskControllerType)
       THEN R(w, NoInfo, ErrNotValidControllerType)
       ELSE Checked(IsDiskAttached(w, plan, vmDiskPath))

----------------------------------------------------------------------------
(* The attach/detach requests against one VM, serialized by the caller.    *)

RequestPaths == Paths \cup {EmptyPath}
Positions == {"first", "last"}
NoAttach == [path |-> EmptyPath, uuid |-> EmptyUUID]

(* The AttachDisk requests: every path with every supported controller    *)
(* type, a storage policy with the paths of one file, and an unsupported   *)
(* type with the paths of no file and of the other file.                    *)
AttachRequests ==
    {<<path, policy, ctype>> \in RequestPaths \X PolicyIDs \X RequestTypes :
        /\ policy = "" \/ path.base = "vol2"
        /\ ctype \in ControllerTypes \/ (policy = "" /\ path.ext = "")}

(* The plans: no remote call fails, one fails, or one fails and so does   *)
(* one of the two remote calls that follow it (DeleteController, the       *)
(* cleanup, makes two).  A request makes no remote call after a failure of *)
(* one of its first four: the first call that a cleanup can follow is the  *)
(* fifth (AddDevice).                                                       *)
Plans == {{}} \cup {{a} : a \in 1..MaxFailIndex}
              \cup {{a, a + k} : a \in 5..MaxFailIndex, k \in 1..2}

(* The VM starts with up to MaxInitControllers controllers of one type,    *)
(* keyed in bus order, and no disk, or with one controller that has no     *)
(* free unit.                                                               *)
EmptyControllers(n, t) ==
    [i \in 1..n |-> Controller(t, 999 + i, TRUE, "noSharing")]
(* The disks of other volumes that fill a controller: one on every unit    *)
(* but the reserved one.                                                    *)
OtherUUIDs ==
    <<"x00", "x01", "x02", "x03", "x04", "x05", "x06", "x07",
      "x08", "x09", "x10", "x11", "x12", "x13", "x14", "x15">>
OtherDisks(ckey) ==
    LET units == [i \in 1..SCSIDeviceSlots |-> i - 1]
        free(u) == u # SCSIReservedSlot
        disk(u) == Disk(2000 + 16 * (ckey - 1000) + u, ckey, u,
                        [id |-> OtherUUIDs[u + 1], form |-> "dashed"], TRUE)
        used == SelectSeq(units, free)
    IN [i \in 1..Len(used) |-> disk(used[i])]
FullControllers(n, t) ==
    LET Disks(k) == IF k = 0 THEN <<>> ELSE OtherDisks(999 + k)
        AllDisks[k \in 0..n] ==
            IF k = 0 THEN <<>> ELSE AllDisks[k - 1] \o Disks(k)
    IN EmptyControllers(n, t) \o AllDisks[n]
InitDeviceLists ==
    {EmptyControllers(n, "pvscsi") : n \in 0..MaxInitControllers}
    \cup {FullControllers(1, "pvscsi")}

NoRet == [op |-> "none", path |-> EmptyPath, policy |-> "", ctype |-> "",
          name |-> EmptyName, uuid |-> EmptyUUID, err |-> Nil,
          raised |-> <<>>, prior |-> NoAttach, before |-> <<>>]

(* Whether a request whose call log this is added a disk.                  *)
InLog(log, name) == \E i \in 1..Len(log) : log[i] = name
Added(log) == InLog(log, "Wait")

(* Whether a live disk of the list is backed by the file the path names.   *)
Backs(devs, path) ==
    \E i \in 1..Len(devs) :
        /\ devs[i].kind = "disk" /\ devs[i].flat
        /\ ServerFile(path) # ""
        /\ devs[i].uuid.id = FileUUID(ServerFile(path))

(* lastAttach after a request: a file whose disk is gone has no record; a *)
(* successful AttachDisk that added the disk records its path and the UUID *)
(* it returned.                                                             *)
Recorded(devs, path, added, uuid) ==
    [f \in Files |->
        IF ~\E q \in Paths : ServerFile(q) = f /\ Backs(devs, q) THEN NoAttach
        ELSE IF added /\ ServerFile(path) = f
             THEN [path |-> path, uuid |-> uuid]
        ELSE lastAttach[f]]

(* The record of the AttachDisk that added the disk a path names, if it    *)
(* was made with this very path.                                            *)
PriorAttach(path) ==
    IF ServerFile(path) # "" /\ lastAttach[ServerFile(path)].path = path
    THEN lastAttach[ServerFile(path)]
    ELSE NoAttach

InitVM ==
    /\ devices \in InitDeviceLists
    /\ calls = <<>>
    /\ ret = NoRet
    /\ lastAttach = [f \in Files |-> NoAttach]

IdleUUID ==
    raw = <<>> /\ chunks = 0 /\ uuidRet = [op |-> "none", uuid |-> <<>>, err |-> Nil]
IdleDisk ==
    /\ volOpts = [DiskFormat |-> "", StoragePolicyName |-> "",
                  VSANStorageProfileData |-> "", StoragePolicyID |-> ""]
    /\ diskRet = [op |-> "none", given |-> volOpts, manager |-> "",
                  invoked |-> "", err |-> Nil]

(* The caller holds the per-VM lock: a request starts when the previous    *)
(* one has returned and its result has been taken (Return).                *)
DoAttachDisk ==
    /\ ret = NoRet
    /\ \E <<path, policy, ctype>> \in AttachRequests,
          plan \in Plans, posC \in {"last"}, posD \in Positions :
        \E r \in {AttachDisk(World(devices), plan, path, policy, ctype,
                              posC, posD)} :
           /\ devices' = r.w.devs
           /\ calls' = r.w.calls
           /\ ret' = [op |-> "AttachDisk", path |-> path, policy |-> policy,
                      ctype |-> ctype, name |-> r.val.name,
                      uuid |-> r.val.uuid, err |-> r.err,
                      raised |-> r.w.raised,
                      prior |-> PriorAttach(path), before |-> devices]
           /\ lastAttach' = Recorded(r.w.devs, path,
                                     r.err = Nil /\ Added(r.w.calls),
                                     r.val.uuid)
           /\ UNCHANGED <<uuidVars, diskVars>>

(* What is recorded of a DetachDisk: name and uuid are those of the device *)
(* it handed to RemoveDevice, if it got that far.                           *)
DetachRet(r, path) ==
    [op |-> "DetachDisk", path |-> path, policy |-> "", ctype |-> "",
     name |-> IF r.val = NullDev THEN EmptyName ELSE Name(r.val),
     uuid |-> IF r.val = NullDev THEN EmptyUUID
              ELSE getVirtualDiskUUIDByDevice(r.val).val,
     err |-> r.err, raised |-> r.w.raised,
     prior |-> PriorAttach(path), before |-> devices]

DoDetachDisk ==
    /\ ret = NoRet
    /\ \E path \in RequestPaths, plan \in Plans :
        \E r \in {DetachDisk(World(devices), plan, path)} :
           /\ devices' = r.w.devs
           /\ calls' = r.w.calls
           /\ ret' = DetachRet(r, path)
           /\ lastAttach' = Recorded(r.w.devs, path, FALSE, EmptyUUID)
           /\ UNCHANGED <<uuidVars, diskVars>>

Return ==
    /\ ret # NoRet
    /\ ret' = NoRet
    /\ calls' = <<>>
    /\ UNCHANGED <<devices, lastAttach, uuidVars, diskVars>>

Init == InitVM /\ IdleUUID /\ IdleDisk
Next == DoAttachDisk \/ DoDetachDisk \/ Return
Spec == Init /\ [][Next]_vars

(* The requests against the VM not serialized: other clients' requests run *)
(* between the requests of this client (OtherRequest) and between the two  *)
(* device-list reads of its DetachDisk (DoDetachDiskAmong).                 *)
OtherRequest ==
    /\ ret = NoRet
    /\ \E o \in OtherRequests :
          /\ devices' = OtherDone(devices, o)
          /\ devices' # devices
          /\ lastAttach' = Recorded(devices', EmptyPath, FALSE, EmptyUUID)
    /\ UNCHANGED <<calls, ret, uuidVars, diskVars>>

DoDetachDiskAmong ==
    /\ ret = NoRet
    /\ \E path \in RequestPaths, plan \in Plans, others \in Interferences :
        \E r \in {DetachDiskAmong(World(devices), plan, path, others)} :
           /\ devices' = r.w.devs
           /\ calls' = r.w.calls
           /\ ret' = DetachRet(r, path)
           /\ lastAttach' = Recorded(r.w.devs, path, FALSE, EmptyUUID)
           /\ UNCHANGED <<uuidVars, diskVars>>

RaceNext == OtherRequest \/ DoDetachDiskAmong \/ Return
SpecRace == Init /\ [][RaceNext]_vars

----------------------------------------------------------------------------
(* getvmUUID.  A string is a sequence of one-character strings.             *)

MaxChunks == 4   \* pieces the content of the UUID file is made of

UUIDPrefix == <<"V", "M", "w", "a", "r", "e", "-">>
WhiteSpace == {" ", "\n", "\t"}
HexDigits == {"0", "1", "2", "3", "4", "5", "6", "7", "8", "9",
              "a", "b", "c", "d", "e", "f"}

(* The pieces file contents are drawn from.                                 *)
Chunks ==
    { UUIDPrefix,
      <<"v", "m", "w", "a", "r", "e", "-">>,
      <<" ">>, <<"\n">>, <<"-">>, <<"a">>,
      <<"5","6"," ","4","d"," ","3","9"," ","5","e"," ","d","8"," ","0","7",
        " ","e","1"," ","8","a">>,
      <<"c","b","2","5","b","7","9","f","6","5","e","b","2","b","9","f">>,
      <<"c","b","2","5","b","7","9","f","6","5","e","b","2","b","9","g">> }

(* strings.TrimSpace *)
TrimSpace(str) ==
    LET keep == {i \in 1..Len(str) : str[i] \notin WhiteSpace}
    IN IF keep = {} THEN <<>>
       ELSE SubSeq(str, Min(keep), CHOOSE i \in keep : \A j \in keep : j <= i)

(* strings.HasPrefix *)
HasPrefix(str, prefix) ==
    Len(str) >= Len(prefix) /\ SubSeq(str, 1, Len(prefix)) = prefix

(* strings.Replace(str, old, "", -1) for a one-character old               *)
RECURSIVE Remove(_, _)
Remove(str, old) ==
    IF str = <<>> THEN <<>>
    ELSE IF Head(str) = old THEN Remove(Tail(str), old)
    ELSE <<Head(str)>> \o Remove(Tail(str), old)

(* Mutant: the length test accepts longer payloads.                        *)
LengthOK_AtLeast(uuid) == Len(uuid) >= 32

(* The length test of getvmUUID.                                            *)
LengthOK(uuid) == Len(uuid) = 32

(* Mutant: the second group is cut one character early.                    *)
Dashed_Shifted(uuid) ==
    SubSeq(uuid, 1, 8) \o <<"-">> \o SubSeq(uuid, 8, 11) \o <<"-">>
    \o SubSeq(uuid, 13, 16) \o <<"-">> \o SubSeq(uuid, 17, 20) \o <<"-">>
    \o SubSeq(uuid, 21, 32)

(* fmt.Sprintf("%s-%s-%s-%s-%s", uuid[0:8], uuid[8:12], uuid[12:16],       *)
(* uuid[16:20], uuid[20:32])                                                *)
Dashed(uuid) ==
    SubSeq(uuid, 1, 8) \o <<"-">> \o SubSeq(uuid, 9, 12) \o <<"-">>
    \o SubSeq(uuid, 13, 16) \o <<"-">> \o SubSeq(uuid, 17, 20) \o <<"-">>
    \o SubSeq(uuid, 21, 32)

(* getvmUUID on the file content id; readErr: ioutil.ReadFile failed.      *)
getvmUUID(id, readErr) ==
    LET uuidFromFile == id
        uuid == TrimSpace(uuidFromFile)
        stripped == Remove(Remove(SubSeq(uuid, Len(UUIDPrefix) + 1, Len(uuid)),
                                  " "), "-")
    IN IF readErr
       THEN [uuid |-> <<>>, err |-> LocalErr("error retrieving vm uuid")]
       ELSE IF ~HasPrefix(uuid, UUIDPrefix)
       THEN [uuid |-> <<>>, err |-> LocalErr("Failed to match Prefix")]
       ELSE IF ~LengthOK(stripped)
       THEN [uuid |-> <<>>, err |-> LocalErr("Length check failed")]
       ELSE [uuid |-> Dashed(stripped), err |-> Nil]

NoUUIDRet == [op |-> "none", uuid |-> <<>>, err |-> Nil]

InitUUID == raw = <<>> /\ uuidRet = NoUUIDRet /\ chunks = 0

(* The environment writes the UUID file, piece by piece.                   *)
WriteChunk ==
    /\ chunks < MaxChunks
    /\ \E c \in Chunks : raw' = raw \o c
    /\ chunks' = chunks + 1
    /\ uuidRet' = NoUUIDRet
    /\ UNCHANGED <<vmVars, diskVars>>

DoGetvmUUID ==
    /\ uuidRet = NoUUIDRet
    /\ \E readErr \in BOOLEAN :
          LET r == getvmUUID(raw, readErr)
          IN uuidRet' = [op |-> IF readErr THEN "readError" ELSE "getvmUUID",
                         uuid |-> r.uuid, err |-> r.err]
    /\ UNCHANGED <<raw, chunks, vmVars, diskVars>>

IdleVM ==
    /\ devices = <<>>
    /\ calls = <<>>
    /\ ret = NoRet
    /\ lastAttach = [f \in Files |-> NoAttach]

UUIDInit == InitUUID /\ IdleVM /\ IdleDisk
UUIDNext == WriteChunk \/ DoGetvmUUID
SpecUUID == UUIDInit /\ [][UUIDNext]_vars

----------------------------------------------------------------------------
(* diskmanagers.VirtualDisk *)

VirtualDiskCreateOperation == "Create"
VirtualDiskDeleteOperation == "Delete"
ThinDiskType == "thin"
DiskFormats == {"", "thin", "zeroedthick", "bogus"}
SupportedDiskFormats == {"thin", "zeroedthick", "eagerzeroedthick"}
PolicyNames == {"", "gold"}
ProfileData == {"", "profile"}
StoragePolicyIDs == {"", "policy-1"}

(* VolumeOptions.VerifyVolumeOptions: the local validation of the options. *)
VerifyVolumeOptions(volumeOptions) ==
    volumeOptions.DiskFormat \in SupportedDiskFormats

(* Mutant: the policy ID is left out of the test.                          *)
UsesPolicy_NoPolicyID(volumeOptions) ==
    \/ volumeOptions.StoragePolicyName # ""
    \/ volumeOptions.VSANStorageProfileData # ""

(* The Create branch of getDiskManager.                                    *)
UsesPolicy(volumeOptions) ==
    \/ volumeOptions.StoragePolicyName # ""
    \/ volumeOptions.VSANStorageProfileData # ""
    \/ volumeOptions.StoragePolicyID # ""

getDiskManager(volumeOptions, diskOperation) ==
    IF diskOperation = VirtualDiskDeleteOperation THEN "virtualDiskManager"
    ELSE IF diskOperation = VirtualDiskCreateOperation
    THEN IF UsesPolicy(volumeOptions) THEN "vmDiskManager"
         ELSE "virtualDiskManager"
    ELSE "nil"

(* Mutant: Create does not test the two policy fields.                     *)
BothPoliciesSet_Unchecked(volumeOptions) == FALSE

(* The test of VirtualDisk.Create on the two policy fields.                *)
BothPoliciesSet(volumeOptions) ==
    volumeOptions.StoragePolicyID # "" /\ volumeOptions.StoragePolicyName # ""

(* VirtualDisk.Create; managerErr is what the manager's Create returns.    *)
(* The result: the options as Create leaves them, the manager selected,    *)
(* the manager method invoked ("" when none) and the error.                 *)
VirtualDiskCreate(volumeOptions, managerErr) ==
    LET opts == IF volumeOptions.DiskFormat = ""
                THEN [volumeOptions EXCEPT !.DiskFormat = ThinDiskType]
                ELSE volumeOptions
        NoCall(err) == [opts |-> opts, manager |-> "", invoked |-> "",
                        err |-> err]
    IN IF ~VerifyVolumeOptions(opts)
       THEN NoCall(LocalErr("ErrInvalidVolumeOptions"))
       ELSE IF BothPoliciesSet(opts)
       THEN NoCall(LocalErr("Storage Policy ID and Storage Policy Name both set"))
       ELSE [opts |-> opts,
             manager |-> getDiskManager(opts, VirtualDiskCreateOperation),
             invoked |-> "Create", err |-> managerErr]

VirtualDiskDelete(volumeOptions, managerErr) ==
    [opts |-> volumeOptions,
     manager |-> getDiskManager(volumeOptions, VirtualDiskDeleteOperation),
     invoked |-> "Delete", err |-> managerErr]

ManagerErrors == {Nil, [kind |-> "remote", call |-> "manager", n |-> 1]}

InitDisk ==
    /\ volOpts \in [DiskFormat : DiskFormats, StoragePolicyName : PolicyNames,
                    VSANStorageProfileData : ProfileData,
                    StoragePolicyID : StoragePolicyIDs]
    /\ diskRet = [op |-> "none", given |-> volOpts, manager |-> "",
                  invoked |-> "", err |-> Nil]

DoCreate ==
    \E managerErr \in ManagerErrors :
        LET r == VirtualDiskCreate(volOpts, managerErr)
        IN /\ volOpts' = r.opts
           /\ diskRet' = [op |-> "Create", given |-> volOpts,
                          manager |-> r.manager, invoked |-> r.invoked,
                          err |-> r.err]
           /\ UNCHANGED <<vmVars, uuidVars>>

DoDelete ==
    \E managerErr \in ManagerErrors :
        LET r == VirtualDiskDelete(volOpts, managerErr)
        IN /\ volOpts' = r.opts
           /\ diskRet' = [op |-> "Delete", given |-> volOpts,
                          manager |-> r.manager, invoked |-> r.invoked,
                          err |-> r.err]
           /\ UNCHANGED <<vmVars, uuidVars>>

(* getDiskManager applied to the options for either operation.            *)
DoGetDiskManager ==
    \E diskOperation \in {VirtualDiskCreateOperation, VirtualDiskDeleteOperation} :
        /\ diskRet' = [op |-> "getDiskManager", given |-> volOpts,
                       manager |-> getDiskManager(volOpts, diskOperation),
                       invoked |-> diskOperation, err |-> Nil]
        /\ UNCHANGED <<volOpts, vmVars, uuidVars>>

DiskInit == InitDisk /\ IdleVM /\ IdleUUID
DiskNext == DoCreate \/ DoDelete \/ DoGetDiskManager
SpecDisk == DiskInit /\ [][DiskNext]_vars

----------------------------------------------------------------------------
(* Properties of attach and detach (specification Spec).                   *)

RemoteNames == {"Device", "QueryVirtualDiskUuid", "AddDevice", "RemoveDevice",
                "Reconfigure", "Wait"}
IndexOf(log, name) == Min({i \in 1..Len(log) : log[i] = name})
Ordinal(log, i) == Cardinality({j \in 1..i : log[j] \in RemoteNames})
NumControllers(devs) == Cardinality({i \in 1..Len(devs) : devs[i].kind = "ctrl"})
NumDisks(devs) == Cardinality({i \in 1..Len(devs) : devs[i].kind = "disk"})

(* C1: attach is idempotent: when an AttachDisk added the disk of a path   *)
(* and the disk was not detached since, a later AttachDisk with the same   *)
(* path that returns success returns the UUID the first one returned, and  *)
(* neither submits a Reconfigure nor creates a controller.                  *)
C1_AttachIdempotent ==
    (ret.op = "AttachDisk" /\ ret.err = Nil /\ ret.prior # NoAttach)
    => /\ ret.uuid = ret.prior.uuid
       /\ ~InLog(calls, "Reconfigure")
       /\ ~InLog(calls, "CreateSCSIController")
       /\ ~InLog(calls, "AddDevice")

(* C2: when an AttachDisk request created a controller and then failed     *)
(* (Reconfigure submission, task wait or reading the new disk's info),     *)
(* DeleteController was called after the failure and before the return,    *)
(* and the error returned is the error of the failure, not one of the      *)
(* cleanup.                                                                 *)
CreatedThenFailed ==
    /\ ret.op = "AttachDisk"
    /\ InLog(calls, "AddDevice")
    /\ InLog(calls, "Reconfigure")
    /\ ret.err # Nil
C2_CleanupOnFailure ==
    CreatedThenFailed
    => /\ \E i \in 1..Len(calls) :
             calls[i] = "DeleteController" /\ i > IndexOf(calls, "Reconfigure")
       /\ IF ret.raised # <<>>
          THEN /\ ret.err = ret.raised[1]
               /\ ret.err.call \in {"Reconfigure", "Wait", "Device"}
               /\ ret.err.n >= Ordinal(calls, IndexOf(calls, "Reconfigure"))
               /\ ret.err.n <= Ordinal(calls, IndexOf(calls, "Reconfigure")) + 2
          ELSE ret.err \in {ErrNoDevicesFound, ErrNoDiskUUIDFound}
(* C2 witness: the task wait failed after a controller was created, the    *)
(* cleanup failed too (the controller is still there), and the wait's      *)
(* error is what was returned.                                              *)
C2_Witness ==
    /\ CreatedThenFailed
    /\ ret.err.call = "Wait"
    /\ Len(ret.raised) = 2
    /\ NumControllers(devices) = NumControllers(ret.before) + 1

(* C3: controller selection, once it has fetched the device list, fails    *)
(* with the controller-limit error exactly when the list holds             *)
(* SCSIControllerLimit or more SCSI controllers, and then requests no      *)
(* controller creation and changes nothing.                                 *)
SelectionFetched ==
    /\ ret.op = "AttachDisk"
    /\ InLog(calls, "createAndAttachSCSIController")
    /\ ret.err # [kind |-> "remote", call |-> "Device",
                  n |-> Ordinal(calls,
                          IndexOf(calls, "createAndAttachSCSIController") + 1)]
C3_ControllerLimit ==
    SelectionFetched
    => /\ (ret.err = ErrControllerLimit)
             <=> (NumControllers(ret.before) >= SCSIControllerLimit)
       /\ NumControllers(ret.before) >= SCSIControllerLimit
             => /\ ~InLog(calls, "CreateSCSIController")
                /\ ~InLog(calls, "AddDevice")
                /\ devices = ret.before
(* C3 witnesses: at the limit exactly; one more; one less.                 *)
C3_Witness ==
    /\ SelectionFetched
    /\ NumControllers(ret.before) = SCSIControllerLimit
    /\ ret.err = ErrControllerLimit
C3_WitnessAbove ==
    /\ SelectionFetched
    /\ NumControllers(ret.before) = SCSIControllerLimit + 1
    /\ ret.err = ErrControllerLimit
C3_WitnessBelow ==
    /\ SelectionFetched
    /\ NumControllers(ret.before) = SCSIControllerLimit - 1
    /\ ret.err = Nil
    /\ NumControllers(devices) = SCSIControllerLimit

(* C4: DetachDisk on a path whose file backs no live disk of the VM        *)
(* returns an error, never calls RemoveDevice and leaves the device list   *)
(* as it was; when its lookup ran to the end the error is the not-found    *)
(* error ErrNoDiskIDFound.                                                  *)
DetachOfUnattached ==
    ret.op = "DetachDisk" /\ ~Backs(ret.before, ret.path)
C4_DetachNotFound ==
    DetachOfUnattached
    => /\ ret.err # Nil
       /\ ~InLog(calls, "RemoveDevice")
       /\ devices = ret.before
       /\ (ret.raised = <<>> => ret.err = ErrNoDiskIDFound)
(* C4 witness: the VM has another disk, the lookup found no match.         *)
C4_Witness ==
    /\ DetachOfUnattached
    /\ NumDisks(ret.before) >= 1
    /\ ret.err = ErrNoDiskIDFound

(* C9: an AttachDisk request with an unsupported controller type fails     *)
(* with the unsupported-type error, having made no remote call and no      *)
(* controller creation, and leaves the device list as it was.              *)
C9_UnsupportedTypeFailsFast ==
    (ret.op = "AttachDisk" /\ ret.ctype \notin ControllerTypes)
    => /\ ret.err = ErrNotValidControllerType
       /\ calls = <<"AttachDisk">>
       /\ devices = ret.before
C9_Witness ==
    /\ ret.op = "AttachDisk"
    /\ ret.ctype = "ide"
    /\ ret.err = ErrNotValidControllerType
    /\ NumDisks(devices) >= 1

(* C10 as stated: the first error a remote call of the request produced    *)
(* is the error the caller receives.                                        *)
C10_RemoteErrorUnchanged ==
    ret.raised # <<>> => ret.err = ret.raised[1]
(* C10 as amended: the error of a failed device enumeration, controller    *)
(* addition, reconfiguration submission, task wait or device removal is    *)
(* returned unchanged; a failed disk-UUID query is never returned as such: *)
(* the error returned, if any, is ErrNoDiskUUIDFound.                       *)
C10_RemoteErrorPropagation ==
    ret.raised # <<>>
    => IF ret.raised[1].call = "QueryVirtualDiskUuid"
       THEN ret.err \in {ErrNoDiskUUIDFound, Nil}
       ELSE ret.err = ret.raised[1]
(* C10 witness: a query failure reported as ErrNoDiskUUIDFound by a detach *)
C10_Witness ==
    /\ ret.op = "DetachDisk"
    /\ ret.raised # <<>>
    /\ ret.raised[1].call = "QueryVirtualDiskUuid"
    /\ ret.err = ErrNoDiskUUIDFound
    /\ NumDisks(devices) >= 1

(* The disks on the VM after the request that were not there before it.    *)
NewDisks ==
    {i \in 1..Len(devices) :
        /\ devices[i].kind = "disk"
        /\ \A j \in 1..Len(ret.before) : ret.before[j].key # devices[i].key}
AttachedByAdding ==
    ret.op = "AttachDisk" /\ ret.err = Nil /\ Added(calls)

(* C11: when AttachDisk succeeds by adding a disk, the device name and the *)
(* UUID it returns are those of the disk this request added, whatever      *)
(* other disks the device list holds and wherever the server lists the     *)
(* new disk.                                                                *)
C11_ReturnsAddedDisk ==
    AttachedByAdding
    => \E i \in NewDisks :
          /\ ret.name = Name(devices[i])
          /\ ret.uuid = formatVirtualDiskUUID(devices[i].uuid)

(* Controller selection ran below the limit.                               *)
SelectionBelowLimit ==
    SelectionFetched /\ NumControllers(ret.before) < SCSIControllerLimit
(* The controllers on the VM after the request that were not there before. *)
NewControllers ==
    {i \in 1..Len(devices) :
        /\ devices[i].kind = "ctrl"
        /\ \A j \in 1..Len(ret.before) : ret.before[j].key # devices[i].key}

(* C12 as stated: controller selection below the limit returns the new     *)
(* controller unregistered: it issues no add-device remote call.           *)
C12_ReturnsUnregistered ==
    SelectionBelowLimit => ~InLog(calls, "AddDevice")
(* C12 as amended: controller selection below the limit creates a          *)
(* controller of the requested type and registers it itself, with the      *)
(* add-device call that follows the creation; when that call fails it      *)
(* calls DeleteController and returns the call's error; when it succeeds   *)
(* and no cleanup follows, the VM has one new controller, of the requested *)
(* type, with hot-add/remove set and sharing none.                          *)
C12_CreatesAndRegisters ==
    SelectionBelowLimit
    => /\ InLog(calls, "CreateSCSIController")
       /\ calls[IndexOf(calls, "CreateSCSIController") + 1] = "AddDevice"
       /\ IF ret.raised # <<>> /\ ret.raised[1].call = "AddDevice"
          THEN /\ ret.err = ret.raised[1]
               /\ calls[IndexOf(calls, "AddDevice") + 1] = "DeleteController"
          ELSE ~InLog(calls, "DeleteController")
               => /\ Cardinality(NewControllers) = 1
                  /\ \A i \in NewControllers :
                        /\ devices[i].ctype = ret.ctype
                        /\ devices[i].hot = TRUE
                        /\ devices[i].sharing = "noSharing"
(* C12 witness: an attach that needed a controller, got it registered and  *)
(* succeeded.                                                               *)
C12_Witness ==
    /\ SelectionBelowLimit
    /\ ret.err = Nil
    /\ NumControllers(ret.before) >= 1
    /\ Cardinality(NewControllers) = 1
(* C12 witness: the add-device call failed.                                 *)
C12_WitnessAddFailed ==
    /\ SelectionBelowLimit
    /\ ret.raised # <<>>
    /\ ret.raised[1].call = "AddDevice"
    /\ InLog(calls, "DeleteController")

(* AttachDisk returned success from its already-attached short-circuit.    *)
ShortCircuited ==
    /\ ret.op = "AttachDisk"
    /\ ret.err = Nil
    /\ ~InLog(calls, "createDiskSpec")

(* C14: when AttachDisk returns success from the already-attached          *)
(* short-circuit, the UUID it returns is the canonical, non-empty UUID of  *)
(* the attached disk the path names, and no remote call of the request     *)
(* produced an error.                                                       *)
C14_ShortCircuitUUID ==
    ShortCircuited
    => /\ ret.uuid # EmptyUUID
       /\ \E i \in 1..Len(devices) :
             /\ devices[i].kind = "disk"
             /\ ret.uuid = formatVirtualDiskUUID(devices[i].uuid)
             /\ devices[i].uuid.id = FileUUID(ServerFile(ret.path))
       /\ ret.raised = <<>>

(* The request ran a failure cleanup.                                      *)
CleanedUp ==
    ret.op = "AttachDisk" /\ ret.err # Nil /\ InLog(calls, "DeleteController")

(* C15: the failure cleanup removes only the controller the failing        *)
(* request created: after a request that called DeleteController, every    *)
(* controller that was on the VM before the request is still on it.        *)
C15_CleanupKeepsOldControllers ==
    CleanedUp
    => \A j \in 1..Len(ret.before) :
          ret.before[j].kind = "ctrl"
          => \E i \in 1..Len(devices) : devices[i] = ret.before[j]

(* C16: with the requests against the VM serialized, a VM that has at most *)
(* SCSIControllerLimit SCSI controllers has at most that many after every  *)
(* step (an AttachDisk or a DetachDisk with its failure cleanup, the       *)
(* return to the caller): a VM that starts within the limit stays within.  *)
C16_ControllerLimitKept ==
    [][NumControllers(devices) <= SCSIControllerLimit
          => NumControllers(devices') <= SCSIControllerLimit]_vars
(* C16 witness: a request added a controller and the VM is at the limit.   *)
C16_Witness ==
    /\ ret.op = "AttachDisk"
    /\ ret.err = Nil
    /\ Cardinality(NewControllers) = 1
    /\ NumControllers(ret.before) = SCSIControllerLimit - 1
    /\ NumControllers(devices) = SCSIControllerLimit
    /\ NumDisks(ret.before) >= 1

(* DetachDisk handed a device to RemoveDevice.                             *)
DetachRemoved ==
    ret.op = "DetachDisk" /\ InLog(calls, "RemoveDevice")

(* C17 (specification SpecRace): the device DetachDisk hands to            *)
(* RemoveDevice is a disk whose backing UUID is the UUID of the file the   *)
(* given path names, also when other requests change the device list       *)
(* between DetachDisk's read of it and the read of GetVirtualDiskID.       *)
C17_RemovesResolvedDisk ==
    DetachRemoved
    => /\ ret.name[1] = "disk"
       /\ ret.uuid =
             formatVirtualDiskUUID([id |-> FileUUID(ServerFile(ret.path)),
                                    form |-> "spaced"])

(* With the requests serialized (specification Spec) the device DetachDisk *)
(* hands to RemoveDevice is the disk of the file the path names.           *)
C17_SerializedRemovesResolvedDisk ==
    DetachRemoved
    => ret.uuid.id = FileUUID(ServerFile(ret.path))

----------------------------------------------------------------------------
(* Properties of getvmUUID (specification SpecUUID).                        *)

(* The identifier's payload: what follows the prefix in the trimmed         *)
(* content, without spaces and hyphens.                                     *)
Payload(content) ==
    LET t == TrimSpace(content)
        notSep(c) == c \notin {" ", "-"}
    IN SelectSeq(SubSeq(t, Len(UUIDPrefix) + 1, Len(t)), notSep)
WellFormed(content) ==
    /\ HasPrefix(TrimSpace(content), UUIDPrefix)
    /\ Len(Payload(content)) = 32
    /\ \A i \in 1..32 : Payload(content)[i] \in HexDigits
(* Position in the canonical form of the i-th payload character.           *)
CanonPos(i) ==
    i + (IF i > 8 THEN 1 ELSE 0) + (IF i > 12 THEN 1 ELSE 0)
      + (IF i > 16 THEN 1 ELSE 0) + (IF i > 20 THEN 1 ELSE 0)

(* C5: a well-formed identifier (prefix present after trimming, payload of *)
(* exactly 32 hex characters) is accepted, and the result is the payload   *)
(* in order, grouped 8-4-4-4-12 with hyphens: 36 characters.               *)
C5_CanonicalForm ==
    (uuidRet.op = "getvmUUID" /\ WellFormed(raw))
    => /\ uuidRet.err = Nil
       /\ Len(uuidRet.uuid) = 36
       /\ \A k \in {9, 14, 19, 24} : uuidRet.uuid[k] = "-"
       /\ \A i \in 1..32 : uuidRet.uuid[CanonPos(i)] = Payload(raw)[i]
(* C5 witness: an accepted identifier with surrounding whitespace and      *)
(* internal spaces.                                                         *)
C5_Witness ==
    /\ uuidRet.op = "getvmUUID"
    /\ WellFormed(raw)
    /\ uuidRet.err = Nil
    /\ raw[1] \in WhiteSpace
    /\ Len(raw) > Len(UUIDPrefix) + 33

(* C6: an identifier without the prefix (after trimming) or whose payload  *)
(* is not 32 characters long is refused: an error and an empty UUID.       *)
C6_Malformed ==
    (/\ uuidRet.op = "getvmUUID"
     /\ \/ ~HasPrefix(TrimSpace(raw), UUIDPrefix)
        \/ Len(Payload(raw)) # 32)
    => uuidRet.err # Nil /\ uuidRet.uuid = <<>>
(* C6 witness: the prefix is there and the payload has 33 characters.      *)
C6_Witness ==
    /\ uuidRet.op = "getvmUUID"
    /\ HasPrefix(TrimSpace(raw), UUIDPrefix)
    /\ Len(Payload(raw)) = 33
    /\ uuidRet.err # Nil
C6_WitnessNoPrefix ==
    /\ uuidRet.op = "getvmUUID"
    /\ ~HasPrefix(TrimSpace(raw), UUIDPrefix)
    /\ Len(raw) >= 32
    /\ uuidRet.err # Nil

(* C13: a payload of 32 characters that holds a character that is not a   *)
(* hexadecimal digit is refused: an error and an empty UUID.               *)
C13_NonHexRejected ==
    (/\ uuidRet.op = "getvmUUID"
     /\ HasPrefix(TrimSpace(raw), UUIDPrefix)
     /\ Len(Payload(raw)) = 32
     /\ \E i \in 1..32 : Payload(raw)[i] \notin HexDigits)
    => uuidRet.err # Nil /\ uuidRet.uuid = <<>>

----------------------------------------------------------------------------
(* Properties of the disk-manager dispatcher (specification SpecDisk).      *)

AnyPolicyField(o) ==
    ~(o.StoragePolicyName = "" /\ o.VSANStorageProfileData = ""
      /\ o.StoragePolicyID = "")

(* C7: getDiskManager selects the plain manager for Delete whatever the    *)
(* options, and for Create the policy-aware manager exactly when one of    *)
(* StoragePolicyName, VSANStorageProfileData, StoragePolicyID is set.      *)
C7_ManagerSelection ==
    /\ (diskRet.op \in {"Delete", "getDiskManager"} /\ diskRet.invoked = "Delete")
          => diskRet.manager = "virtualDiskManager"
    /\ (diskRet.op \in {"Create", "getDiskManager"} /\ diskRet.invoked = "Create")
          => diskRet.manager = IF AnyPolicyField(diskRet.given)
                               THEN "vmDiskManager" ELSE "virtualDiskManager"
C7_Witness ==
    /\ diskRet.op = "Create"
    /\ diskRet.invoked = "Create"
    /\ diskRet.given.StoragePolicyID # ""
    /\ diskRet.given.StoragePolicyName = ""
    /\ diskRet.given.VSANStorageProfileData = ""
    /\ diskRet.manager = "vmDiskManager"

(* C8: Create with StoragePolicyID and StoragePolicyName both set returns  *)
(* an error and invokes no manager; no manager's Create runs with both set. *)
BothSet(o) == o.StoragePolicyID # "" /\ o.StoragePolicyName # ""
C8_BothPoliciesRejected ==
    diskRet.op = "Create"
    => /\ BothSet(diskRet.given) => (diskRet.err # Nil /\ diskRet.invoked = ""
                                     /\ diskRet.manager = "")
       /\ diskRet.invoked = "Create" => ~BothSet(diskRet.given)
C8_Witness ==
    /\ diskRet.op = "Create"
    /\ BothSet(diskRet.given)
    /\ diskRet.given.DiskFormat = "zeroedthick"
    /\ diskRet.err = LocalErr("Storage Policy ID and Storage Policy Name both set")

====
